---- MODULE Spec2Model ----
(***************************************************************************)
(* Model of the chat page of the travel planner front end                  *)
(* (src/frontend/src/pages/chat/Chat.tsx): the component state, the        *)
(* effect that binds one WebSocket to the trip identifier, the four        *)
(* WebSocket callbacks, the two state updaters they drive, the send gate   *)
(* and the derived progress percentage.                                    *)
(***************************************************************************)
EXTENDS Integers, Sequences, FiniteSets, TLC

\* ------------------------------------------------------------------------
\* Bounds of the model
\* ------------------------------------------------------------------------
MaxConns == 2
MaxSessionEvents == 2
MaxEvents == 4
MaxProgressEvents == 2
MaxHistEvents == 13
MaxProgress == 5
MaxTextLen == 4
MaxStarLen == 6

\* ------------------------------------------------------------------------
\* Values
\* ------------------------------------------------------------------------
\* A property that is absent from a decoded object reads as undefined.
Undefined == "undefined"

\* useParams() gives undefined when the route carries no trip identifier.
NoTrip == Undefined
Trips == {"tripA", "tripB"}

\* wsRef.current starts as null; connections are numbered in creation order.
NullRef == 0

\* Numeric or structured optional fields of AgentStatus (progress,
\* elapsed_seconds): undefined, a number, or a {current,total} object.
JsUndefined == [tag |-> "undefined", num |-> 0, current |-> 0, total |-> 0]
JsNumber(n) == [tag |-> "number", num |-> n, current |-> 0, total |-> 0]
JsPair(c, t) == [tag |-> "object", num |-> 0, current |-> c, total |-> t]

\* A decoded inbound object: the fields of Message and of AgentStatus.
Msg(type, senderName, content, timestamp, agent_name, status, step, progress, elapsed) ==
    [type |-> type, senderName |-> senderName, content |-> content,
     timestamp |-> timestamp, agent_name |-> agent_name, status |-> status,
     step |-> step, progress |-> progress, elapsed_seconds |-> elapsed]

ChatMsg(type, senderName, content, timestamp) ==
    Msg(type, senderName, content, timestamp, Undefined, Undefined, Undefined,
        JsUndefined, JsUndefined)

StatusMsg(agent_name, status, step, timestamp, progress, elapsed) ==
    Msg("agent_status", Undefined, Undefined, timestamp, agent_name, status, step,
        progress, elapsed)

\* The object {} : it decodes, and every field is absent.
EmptyObj == ChatMsg(Undefined, Undefined, Undefined, Undefined)

\* A frame on the wire (event.data): text that is not JSON, the JSON text
\* null, or the JSON text of an object.
BadFrame == [json |-> "invalid", obj |-> EmptyObj]
NullFrame == [json |-> "null", obj |-> EmptyObj]
ObjFrame(m) == [json |-> "object", obj |-> m]

\* JSON.parse(event.data): throws a SyntaxError on text that is not JSON.
JSONParse(data) ==
    CASE data.json = "invalid" -> [threw |-> TRUE, isNull |-> FALSE, value |-> EmptyObj]
      [] data.json = "null" -> [threw |-> FALSE, isNull |-> TRUE, value |-> EmptyObj]
      [] OTHER -> [threw |-> FALSE, isNull |-> FALSE, value |-> data.obj]

\* The local user read from localStorage('user_info').
CurrentUser == [id |-> "u1", name |-> Undefined]

\* Text typed into the textarea, as a sequence of characters.
Inputs == { <<>>, <<" ", " ">>, <<" ", "h", "i">> }

IsWhiteSpace(ch) == ch \in {" ", "\t", "\n", "\r"}

\* String.prototype.trim(): strips white space from both ends.
RECURSIVE TrimStart(_)
TrimStart(s) ==
    IF s = <<>> THEN <<>>
    ELSE IF IsWhiteSpace(Head(s)) THEN TrimStart(Tail(s)) ELSE s

RECURSIVE TrimEnd(_)
TrimEnd(s) ==
    IF s = <<>> THEN <<>>
    ELSE IF IsWhiteSpace(s[Len(s)]) THEN TrimEnd(SubSeq(s, 1, Len(s) - 1)) ELSE s

Trim(s) == TrimEnd(TrimStart(s))

\* ------------------------------------------------------------------------
\* State
\* ------------------------------------------------------------------------
VARIABLES
    tripId,         \* useParams().tripId
    mounted,        \* the component's effects have run for the first time
    messages,       \* useState<Message[]>([])
    agentStatuses,  \* useState<AgentStatus[]>([])
    inputMessage,   \* useState('')
    isConnected,    \* useState(false)
    wsRef,          \* useRef<WebSocket | null>(null)
    cleanupWs,      \* the ws captured by the effect's registered cleanup
    conns,          \* every WebSocket created so far, in creation order
    dispatching,    \* the connection whose close event follows its error event
    delivered,      \* history: the frames handed to onmessage, with their connection
    wsCalls,        \* history: the constructor and close() calls made by the component
    lastSend        \* history: what the latest run of handleSendMessage did

vars == <<tripId, mounted, messages, agentStatuses, inputMessage, isConnected,
          wsRef, cleanupWs, conns, dispatching, delivered, wsCalls, lastSend>>

reactState == <<messages, agentStatuses, inputMessage, isConnected>>
histVars == <<delivered, wsCalls, lastSend>>

ConnIds == 1..Len(conns)

\* ------------------------------------------------------------------------
\* The two state updaters driven by onmessage
\* ------------------------------------------------------------------------
HistoryCap == 10

\* Faulty variant of SliceLast: slice(0, n), which keeps the oldest entries.
SliceFirst(s, n) == IF Len(s) <= n THEN s ELSE SubSeq(s, 1, n)

\* Array.prototype.slice(-n): the last n elements.
SliceLast(s, n) == IF Len(s) <= n THEN s ELSE SubSeq(s, Len(s) - n + 1, Len(s))

\* Faulty variant of FindIndex: the predicate ignores the name and matches
\* the first record.
FindIndexFirst(prev, name) == IF Len(prev) >= 1 THEN 1 ELSE 0

\* Array.prototype.findIndex, 1-based; 0 when nothing matches (-1 in the code).
FindIndex(prev, name) ==
    IF \E i \in 1..Len(prev) : prev[i].agent_name = name
    THEN CHOOSE i \in 1..Len(prev) :
            /\ prev[i].agent_name = name
            /\ \A j \in 1..(i - 1) : prev[j].agent_name # name
    ELSE 0

\* { ...message, step_history: h }
WithHistory(message, h) ==
    [f \in (DOMAIN message) \cup {"step_history"} |->
        IF f = "step_history" THEN h ELSE message[f]]

\* Faulty variant of NewHistory: the merge without the slice.
NewHistoryUncapped(oldAgent) ==
    Append(oldAgent.step_history,
           [step |-> oldAgent.step, timestamp |-> oldAgent.timestamp])

\* [...(oldAgent.step_history || []), {step, timestamp}].slice(-10)
NewHistory(oldAgent) ==
    SliceLast(Append(oldAgent.step_history,
                     [step |-> oldAgent.step, timestamp |-> oldAgent.timestamp]),
              HistoryCap)

\* Faulty variant of StatusUpdater: every status event adds a record.
StatusUpdaterAppendOnly(prev, message) == Append(prev, WithHistory(message, <<>>))

\* Faulty variant of StatusUpdater: { ...oldAgent, ...message } with absent
\* fields of the message falling back to the old record's values.
StatusUpdaterMerge(prev, message) ==
    LET existing == FindIndex(prev, message.agent_name) IN
    IF existing >= 1
    THEN LET old == prev[existing]
             merged == [f \in DOMAIN message |->
                          IF f \in {"progress", "elapsed_seconds"} /\ message[f] = JsUndefined
                          THEN old[f] ELSE message[f]]
         IN  [prev EXCEPT ![existing] = WithHistory(merged, NewHistory(old))]
    ELSE Append(prev, WithHistory(message, <<>>))

\* Faulty variant of StatusUpdater: an updated record is removed from its
\* place and put at the end.
StatusUpdaterMoveToEnd(prev, message) ==
    LET existing == FindIndex(prev, message.agent_name) IN
    IF existing >= 1
    THEN Append(SubSeq(prev, 1, existing - 1) \o SubSeq(prev, existing + 1, Len(prev)),
                WithHistory(message, NewHistory(prev[existing])))
    ELSE Append(prev, WithHistory(message, <<>>))

\* The updater passed to setAgentStatuses.
StatusUpdater(prev, message) ==
    LET existing == FindIndex(prev, message.agent_name) IN
    IF existing >= 1
    THEN [prev EXCEPT ![existing] = WithHistory(message, NewHistory(prev[existing]))]
    ELSE Append(prev, WithHistory(message, <<>>))

\* Faulty variant of TranscriptUpdater: an event equal to one already shown is skipped.
TranscriptUpdaterDedup(prev, message) ==
    IF \E i \in 1..Len(prev) : prev[i] = message THEN prev ELSE Append(prev, message)

\* The updater passed to setMessages.
TranscriptUpdater(prev, message) == Append(prev, message)

\* Whether the body of onmessage runs to the end without throwing:
\* JSON.parse throws on invalid text, and null.type throws a TypeError.
Decodes(data) == ~JSONParse(data).threw /\ ~JSONParse(data).isNull

IsStatus(data) == Decodes(data) /\ JSONParse(data).value.type = "agent_status"
IsChat(data) == Decodes(data) /\ JSONParse(data).value.type # "agent_status"

\* ------------------------------------------------------------------------
\* The effect bound to [tripId] and its cleanup
\* ------------------------------------------------------------------------
NewConn(t) == [trip |-> t, readyState |-> "CONNECTING"]

\* WebSocket.close(): a connecting or open socket starts closing; the close
\* event comes later. Closing twice does nothing.
CloseConn(cs, c) ==
    IF cs[c].readyState \in {"CONNECTING", "OPEN"}
    THEN [cs EXCEPT ![c].readyState = "CLOSING"]
    ELSE cs

\* The part of the state the effect and its cleanup act on.
EffectState == [conns |-> conns, wsRef |-> wsRef, cleanupWs |-> cleanupWs,
                wsCalls |-> wsCalls]

\* The effect body: nothing without a trip identifier, otherwise a new
\* WebSocket kept in wsRef and captured by the returned cleanup.
RunEffect(w, t) ==
    IF t = NoTrip
    THEN [w EXCEPT !.cleanupWs = NullRef]
    ELSE LET c == Len(w.conns) + 1 IN
         [conns |-> Append(w.conns, NewConn(t)),
          wsRef |-> c,
          cleanupWs |-> c,
          wsCalls |-> Append(w.wsCalls, [op |-> "new", conn |-> c])]

\* The cleanup returned by the effect: ws.close() on the ws it captured.
RunCleanup(w) ==
    IF w.cleanupWs = NullRef
    THEN w
    ELSE [w EXCEPT !.conns = CloseConn(w.conns, w.cleanupWs),
                   !.wsCalls = Append(w.wsCalls, [op |-> "close", conn |-> w.cleanupWs]),
                   !.cleanupWs = NullRef]

\* Faulty variant of Rebind: the effect runs again without the old cleanup.
RebindNoCleanup(w, t) == RunEffect(w, t)

\* A change of the dependency: the old cleanup runs, then the effect body.
Rebind(w, t) == RunEffect(RunCleanup(w), t)

SetEffectState(w) ==
    /\ conns' = w.conns
    /\ wsRef' = w.wsRef
    /\ cleanupWs' = w.cleanupWs
    /\ wsCalls' = w.wsCalls

\* First run of the effect. Under <StrictMode> a development build runs the
\* effect, its cleanup and the effect again; a production build runs it once.
Mount(strict) ==
    /\ ~mounted
    /\ dispatching = NullRef
    /\ mounted' = TRUE
    /\ SetEffectState(IF strict
                      THEN Rebind(RunEffect(EffectState, tripId), tripId)
                      ELSE RunEffect(EffectState, tripId))
    /\ UNCHANGED <<tripId, reactState, dispatching, delivered, lastSend>>

\* The route parameter changes to another trip while the component stays
\* mounted.
ChangeTrip(t) ==
    /\ mounted
    /\ dispatching = NullRef
    /\ t # tripId
    /\ Len(conns) < MaxConns
    /\ tripId' = t
    /\ SetEffectState(Rebind(EffectState, t))
    /\ UNCHANGED <<mounted, reactState, dispatching, delivered, lastSend>>

\* ------------------------------------------------------------------------
\* The WebSocket callbacks
\* ------------------------------------------------------------------------
\* ws.onopen
WsOpen(c) ==
    /\ dispatching = NullRef
    /\ conns[c].readyState = "CONNECTING"
    /\ conns' = [conns EXCEPT ![c].readyState = "OPEN"]
    /\ isConnected' = TRUE
    /\ UNCHANGED <<tripId, mounted, messages, agentStatuses, inputMessage, wsRef,
                   cleanupWs, dispatching, histVars>>

\* Faulty variant of OnMessage: every decoded event is given to both updaters.
OnMessageBoth(data) ==
    LET parsed == JSONParse(data)
        message == parsed.value
    IN  IF parsed.threw \/ parsed.isNull
        THEN UNCHANGED <<messages, agentStatuses>>
        ELSE /\ agentStatuses' = IF message.type = "agent_status"
                                 THEN StatusUpdater(agentStatuses, message)
                                 ELSE agentStatuses
             /\ messages' = TranscriptUpdater(messages, message)

\* The body of ws.onmessage on event.data.
OnMessage(data) ==
    LET parsed == JSONParse(data)
        message == parsed.value
    IN  IF parsed.threw \/ parsed.isNull
        THEN UNCHANGED <<messages, agentStatuses>>
        ELSE IF message.type = "agent_status"
        THEN /\ agentStatuses' = StatusUpdater(agentStatuses, message)
             /\ UNCHANGED messages
        ELSE /\ messages' = TranscriptUpdater(messages, message)
             /\ UNCHANGED agentStatuses

\* A frame arrives on connection c: message events are dispatched only
\* while the socket is open.
WsMessage(c, data) ==
    /\ dispatching = NullRef
    /\ conns[c].readyState = "OPEN"
    /\ OnMessage(data)
    /\ delivered' = Append(delivered, [conn |-> c, data |-> data])
    /\ UNCHANGED <<tripId, mounted, inputMessage, isConnected, wsRef, cleanupWs,
                   conns, dispatching, wsCalls, lastSend>>

\* ws.onerror: the connection failed; the socket is already closed when the
\* error event is dispatched, and its close event follows in the same task.
\* The handler only logs.
WsError(c) ==
    /\ dispatching = NullRef
    /\ conns[c].readyState \in {"CONNECTING", "OPEN", "CLOSING"}
    /\ conns' = [conns EXCEPT ![c].readyState = "CLOSED"]
    /\ dispatching' = c
    /\ UNCHANGED <<tripId, mounted, reactState, wsRef, cleanupWs, histVars>>

\* Faulty variant of WsClose: the handler also empties the session state.
WsCloseClearsState(c) ==
    /\ \/ dispatching = c
       \/ dispatching = NullRef /\ conns[c].readyState \in {"OPEN", "CLOSING"}
    /\ conns' = [conns EXCEPT ![c].readyState = "CLOSED"]
    /\ dispatching' = NullRef
    /\ isConnected' = FALSE
    /\ messages' = <<>>
    /\ agentStatuses' = <<>>
    /\ UNCHANGED <<tripId, mounted, inputMessage, wsRef, cleanupWs, histVars>>

\* Faulty variant of WsClose: the handler only logs, as onerror does.
WsCloseKeepsFlag(c) ==
    /\ \/ dispatching = c
       \/ dispatching = NullRef /\ conns[c].readyState \in {"OPEN", "CLOSING"}
    /\ conns' = [conns EXCEPT ![c].readyState = "CLOSED"]
    /\ dispatching' = NullRef
    /\ UNCHANGED <<tripId, mounted, reactState, wsRef, cleanupWs, histVars>>

\* ws.onclose: after an error, after a remote close of an open socket, or
\* when a close requested by the component completes.
WsClose(c) ==
    /\ \/ dispatching = c
       \/ dispatching = NullRef /\ conns[c].readyState \in {"OPEN", "CLOSING"}
    /\ conns' = [conns EXCEPT ![c].readyState = "CLOSED"]
    /\ dispatching' = NullRef
    /\ isConnected' = FALSE
    /\ UNCHANGED <<tripId, mounted, messages, agentStatuses, inputMessage, wsRef,
                   cleanupWs, histVars>>

\* ------------------------------------------------------------------------
\* Input and send
\* ------------------------------------------------------------------------
\* onChange of the textarea, which is disabled while not connected.
TypeInput(s) ==
    /\ mounted
    /\ dispatching = NullRef
    /\ isConnected
    /\ s # inputMessage
    /\ inputMessage' = s
    /\ UNCHANGED <<tripId, mounted, messages, agentStatuses, isConnected, wsRef,
                   cleanupWs, conns, dispatching, histVars>>

\* The gate at the top of handleSendMessage.
SendRejected ==
    Trim(inputMessage) = <<>> \/ wsRef = NullRef \/ ~isConnected

\* The object handed to JSON.stringify.
MessageData(content) ==
    [senderId |-> IF CurrentUser.id = Undefined THEN "unknown" ELSE CurrentUser.id,
     senderName |-> IF CurrentUser.name = Undefined THEN "Anonymous" ELSE CurrentUser.name,
     content |-> content,
     type |-> "user",
     timestamp |-> "now"]

\* WebSocket.send() by ready state: an InvalidStateError while connecting,
\* a transmitted frame while open, silently discarded data otherwise.
SendOutcome(readyState) ==
    CASE readyState = "CONNECTING" -> "threw"
      [] readyState = "OPEN" -> "written"
      [] OTHER -> "discarded"

ReadyStateOf(ref) == IF ref = NullRef THEN "none" ELSE conns[ref].readyState

NoSend == [conn |-> NullRef, readyState |-> "none", input |-> <<>>,
           sent |-> <<>>, outcome |-> "none"]

\* handleSendMessage (the Send button, or Enter in the textarea).
SendMessage ==
    /\ mounted
    /\ dispatching = NullRef
    /\ LET outcome == IF SendRejected THEN "rejected"
                      ELSE SendOutcome(conns[wsRef].readyState)
       IN  /\ lastSend' = [conn |-> wsRef,
                           readyState |-> ReadyStateOf(wsRef),
                           input |-> inputMessage,
                           sent |-> IF SendRejected THEN <<>>
                                    ELSE <<MessageData(inputMessage)>>,
                           outcome |-> outcome]
           /\ inputMessage' = IF outcome \in {"written", "discarded"}
                              THEN <<>> ELSE inputMessage
    /\ UNCHANGED <<tripId, mounted, messages, agentStatuses, isConnected, wsRef,
                   cleanupWs, conns, dispatching, delivered, wsCalls>>

\* ------------------------------------------------------------------------
\* Specification of the page: session life cycle, callbacks and send
\* ------------------------------------------------------------------------
\* Frames a server sends during a session: one chat event, one status event.
SessionFrames ==
    { ObjFrame(ChatMsg("ai", "Planner", "hello", "t1")),
      ObjFrame(StatusMsg("agentA", "running", "step1", "t1", JsNumber(1), JsUndefined)) }

\* The state after construction: the useState and useRef initial values,
\* before any effect has run.
Init ==
    /\ tripId \in Trips \cup {NoTrip}
    /\ mounted = FALSE
    /\ messages = <<>>
    /\ agentStatuses = <<>>
    /\ inputMessage = <<>>
    /\ isConnected = FALSE
    /\ wsRef = NullRef
    /\ cleanupWs = NullRef
    /\ conns = <<>>
    /\ dispatching = NullRef
    /\ delivered = <<>>
    /\ wsCalls = <<>>
    /\ lastSend = NoSend

Next ==
    \/ \E strict \in BOOLEAN : Mount(strict)
    \/ \E t \in Trips : ChangeTrip(t)
    \/ \E c \in ConnIds : WsOpen(c)
    \/ \E c \in ConnIds, data \in SessionFrames :
          Len(delivered) < MaxSessionEvents /\ WsMessage(c, data)
    \/ \E c \in ConnIds : WsError(c)
    \/ \E c \in ConnIds : WsClose(c)
    \/ \E s \in Inputs : TypeInput(s)
    \/ SendMessage

Spec == Init /\ [][Next]_vars

\* ------------------------------------------------------------------------
\* Specification of the inbound stream on one open connection
\* ------------------------------------------------------------------------
\* The page after a production mount for tripA and the open notification.
StreamInit ==
    /\ tripId = "tripA"
    /\ mounted = TRUE
    /\ messages = <<>>
    /\ agentStatuses = <<>>
    /\ inputMessage = <<>>
    /\ isConnected = TRUE
    /\ wsRef = 1
    /\ cleanupWs = 1
    /\ conns = <<[trip |-> "tripA", readyState |-> "OPEN"]>>
    /\ dispatching = NullRef
    /\ delivered = <<>>
    /\ wsCalls = <<[op |-> "new", conn |-> 1]>>
    /\ lastSend = NoSend

\* Frames of every shape: not JSON, null, {}, chat events (one stamped
\* earlier than the one before it), status events for two agents with and
\* without optional fields, a status outside the vocabulary, and a status
\* event without agent_name.
Frames ==
    { BadFrame,
      NullFrame,
      ObjFrame(EmptyObj),
      ObjFrame(ChatMsg("user", "Ann", "hi", "t2")),
      ObjFrame(ChatMsg("ai", "Planner", "hello", "t1")),
      ObjFrame(StatusMsg("agentA", "running", "step1", "t1", JsNumber(1), JsNumber(3))),
      ObjFrame(StatusMsg("agentA", "completed", "step2", "t2", JsUndefined, JsUndefined)),
      ObjFrame(StatusMsg("agentB", "paused", "step1", "t1", JsPair(1, 2), JsUndefined)),
      ObjFrame(StatusMsg(Undefined, "running", "step1", "t1", JsUndefined, JsUndefined)) }

StreamNext ==
    \E data \in Frames :
        Len(delivered) < MaxEvents /\ WsMessage(1, data)

SpecStream == StreamInit /\ [][StreamNext]_vars

\* ------------------------------------------------------------------------
\* Specification of long runs of status events (the history cap)
\* ------------------------------------------------------------------------
HistAgents == {"agentA", "agentB"}

\* The k-th frame of a run carries a timestamp of its own and one of three
\* step names, so that steps repeat inside a history while no two
\* {step, timestamp} pairs are equal.
StepAt(k) == "step" \o ToString(k % 3)
StampAt(k) == "t" \o ToString(k)

HistFrame(agent, k) ==
    ObjFrame(StatusMsg(agent, "running", StepAt(k), StampAt(k), JsUndefined, JsUndefined))

\* The next status event belongs to either agent.
HistStatus(agent) ==
    /\ Len(delivered) < MaxHistEvents
    /\ WsMessage(1, HistFrame(agent, Len(delivered) + 1))

HistNext ==
    \E agent \in HistAgents : HistStatus(agent)

SpecHist == StreamInit /\ [][HistNext]_vars

\* ------------------------------------------------------------------------
\* The derived progress percentage of the status panel
\* ------------------------------------------------------------------------
\* A JavaScript number: a finite ratio num/den, Infinity or NaN.
Finite(n, d) == [kind |-> "finite", num |-> n, den |-> d]
Infinity == [kind |-> "Infinity", num |-> 0, den |-> 1]
NaN == [kind |-> "NaN", num |-> 0, den |-> 1]

\* a / b on non-negative numbers: x/0 is Infinity, 0/0 is NaN.
JsDivide(a, b) ==
    IF b # 0 THEN Finite(a, b)
    ELSE IF a = 0 THEN NaN ELSE Infinity

\* x * k for a positive finite k.
JsTimes(x, k) ==
    IF x.kind = "finite" THEN Finite(x.num * k, x.den) ELSE x

\* Truthiness of agent.progress: undefined and 0 are falsy, an object is truthy.
Truthy(v) == v.tag = "object" \/ (v.tag = "number" /\ v.num # 0)

\* progressPercent of one rendered agent.
ProgressPercent(agent) ==
    IF Truthy(agent.progress)
    THEN IF agent.progress.tag = "number"
         THEN Finite(agent.progress.num, 1)
         ELSE JsTimes(JsDivide(agent.progress.current, agent.progress.total), 100)
    ELSE Finite(0, 1)

\* Equality of two JavaScript numbers (NaN equals nothing).
JsEquals(x, y) ==
    /\ x.kind # "NaN" /\ y.kind # "NaN"
    /\ x.kind = y.kind
    /\ x.kind = "finite" => x.num * y.den = y.num * x.den

ProgressValues ==
    {JsUndefined}
    \cup {JsNumber(n) : n \in 0..MaxProgress}
    \cup {JsPair(c, t) : c \in 0..MaxProgress, t \in 0..MaxProgress}

\* A status event of agentA carrying any progress value.
ProgressNext ==
    \E pr \in ProgressValues :
        /\ Len(delivered) < MaxProgressEvents
        /\ WsMessage(1, ObjFrame(StatusMsg("agentA", "running", "step1", "t1",
                                           pr, JsUndefined)))

SpecProgress == StreamInit /\ [][ProgressNext]_vars

\* ------------------------------------------------------------------------
\* Properties
\* ------------------------------------------------------------------------
\* The decoded non-agent-status objects of the frames of log, in order.
RECURSIVE ChatEvents(_)
ChatEvents(log) ==
    IF log = <<>> THEN <<>>
    ELSE IF IsChat(Head(log).data)
         THEN <<JSONParse(Head(log).data).value>> \o ChatEvents(Tail(log))
         ELSE ChatEvents(Tail(log))

\* The decoded agent-status objects of the frames of log, in order.
RECURSIVE StatusEvents(_)
StatusEvents(log) ==
    IF log = <<>> THEN <<>>
    ELSE IF IsStatus(Head(log).data)
         THEN <<JSONParse(Head(log).data).value>> \o StatusEvents(Tail(log))
         ELSE StatusEvents(Tail(log))

\* The status events of log that carry agent_name name, in order.
RECURSIVE EventsOfAgent(_, _)
EventsOfAgent(evs, name) ==
    IF evs = <<>> THEN <<>>
    ELSE IF Head(evs).agent_name = name
         THEN <<Head(evs)>> \o EventsOfAgent(Tail(evs), name)
         ELSE EventsOfAgent(Tail(evs), name)

AgentNames(evs) == {evs[i].agent_name : i \in 1..Len(evs)}

StepPairs(evs) ==
    [i \in 1..Len(evs) |-> [step |-> evs[i].step, timestamp |-> evs[i].timestamp]]

Min(a, b) == IF a <= b THEN a ELSE b

\* C1: the transcript is exactly the decoded non-agent-status events handed
\* to onmessage, in arrival order: same length, same entries at the same
\* positions, nothing dropped, merged, deduplicated or reordered by timestamp.
C1_TranscriptIsArrivalOrder ==
    messages = ChatEvents(delivered)

\* C1 witness: four frames have arrived, among them a status event; the
\* transcript holds an entry stamped t2 before an entry stamped t1, and the
\* same chat event twice.
C1_Witness ==
    /\ Len(delivered) = 4
    /\ Len(messages) = 3
    /\ \E i \in 1..Len(delivered) : IsStatus(delivered[i].data)
    /\ messages[1].timestamp = "t2"
    /\ messages[2].timestamp = "t1"
    /\ messages[3] = messages[2]

\* C2: for every agentName with k >= 1 status events s1..sk, the record's
\* step and timestamp are those of sk and its stepHistory is the last
\* min(k-1, 10) {step, timestamp} pairs of s1..s(k-1), in arrival order.
C2_HistoryIsRecentPriorSteps ==
    LET evs == StatusEvents(delivered) IN
    /\ AgentNames(evs) = {agentStatuses[i].agent_name : i \in 1..Len(agentStatuses)}
    /\ \A i \in 1..Len(agentStatuses) :
          LET mine == EventsOfAgent(evs, agentStatuses[i].agent_name)
              k == Len(mine)
              prior == StepPairs(SubSeq(mine, 1, k - 1))
              kept == Min(k - 1, HistoryCap)
          IN  /\ k >= 1
              /\ agentStatuses[i].step = mine[k].step
              /\ agentStatuses[i].timestamp = mine[k].timestamp
              /\ Len(agentStatuses[i].step_history) = kept
              /\ agentStatuses[i].step_history = SubSeq(prior, k - kept, k - 1)

\* C2 witness: agentA has received 12 status events with another agent's
\* event in between; its history has length 10 and starts with the second
\* event's step, which differs from the first event's step.
C2_Witness ==
    LET evs == StatusEvents(delivered)
        mine == EventsOfAgent(evs, "agentA")
    IN  /\ Len(mine) = 12
        /\ Len(evs) > 12
        /\ evs[1].agent_name = "agentA"
        /\ evs[Len(evs)].agent_name = "agentA"
        /\ mine[1].step # mine[2].step
        /\ \E i \in 1..Len(agentStatuses) :
              /\ agentStatuses[i].agent_name = "agentA"
              /\ Len(agentStatuses[i].step_history) = 10
              /\ agentStatuses[i].step_history[1].step = mine[2].step

\* C3: every agent status record's stepHistory has at most 10 entries.
C3_HistoryAtMostTen ==
    \A i \in 1..Len(agentStatuses) : Len(agentStatuses[i].step_history) <= 10

\* C3 witness: an agent has received more than 11 status events and its
\* history stands at 10 entries.
C3_Witness ==
    \E i \in 1..Len(agentStatuses) :
        /\ Len(EventsOfAgent(StatusEvents(delivered), agentStatuses[i].agent_name)) > 11
        /\ Len(agentStatuses[i].step_history) = 10

\* C4: the collection holds one record per agentName received: no two
\* records share an agentName, and the names present are exactly the names
\* of the status events received.
C4_OneRecordPerAgent ==
    /\ \A i, j \in 1..Len(agentStatuses) :
          agentStatuses[i].agent_name = agentStatuses[j].agent_name => i = j
    /\ Len(agentStatuses) = Cardinality(AgentNames(StatusEvents(delivered)))
    /\ {agentStatuses[i].agent_name : i \in 1..Len(agentStatuses)}
          = AgentNames(StatusEvents(delivered))

\* C4 witness: four status events for two agentNames have arrived and the
\* collection holds two records.
C4_Witness ==
    /\ Len(StatusEvents(delivered)) = 4
    /\ Len(agentStatuses) = 2
    /\ Len(EventsOfAgent(StatusEvents(delivered), "agentA")) >= 2

\* C5: a run of handleSendMessage that finds the current connection in any
\* state other than OPEN, or the input empty or white space only, is
\* rejected: it neither writes to the transport nor throws.
C5_SendGate ==
    lastSend.outcome # "none" =>
        ( (lastSend.readyState # "OPEN" \/ Trim(lastSend.input) = <<>>)
            => lastSend.outcome = "rejected" )

\* The frames of log that connection c delivered, in order.
RECURSIVE FramesOf(_, _)
FramesOf(log, c) ==
    IF log = <<>> THEN <<>>
    ELSE IF Head(log).conn = c
         THEN <<Head(log)>> \o FramesOf(Tail(log), c)
         ELSE FramesOf(Tail(log), c)

\* C6: the transcript and the agent status collection of the current
\* session hold what the current connection delivered and nothing else:
\* they are empty when the session starts and never hold an event of an
\* earlier session's connection.
C6_SessionIsolation ==
    mounted =>
        /\ messages = ChatEvents(FramesOf(delivered, wsRef))
        /\ {agentStatuses[i].agent_name : i \in 1..Len(agentStatuses)}
              = AgentNames(StatusEvents(FramesOf(delivered, wsRef)))

CurrentIsOpen == wsRef # NullRef /\ conns[wsRef].readyState = "OPEN"

\* C7: between notifications, isConnected is true exactly when the
\* session's current connection is OPEN.
C7_ConnectedIffCurrentOpen ==
    dispatching = NullRef => (isConnected <=> CurrentIsOpen)

\* The connections the component has created and not closed.
LiveConns ==
    {c \in ConnIds : ~\E i \in 1..Len(wsCalls) : wsCalls[i] = [op |-> "close", conn |-> c]}

\* C10: at most one connection is live; every connection was created for a
\* trip identifier; and whenever the component creates a connection it has
\* already called close() on every connection it created before.
C10_AtMostOneLiveConnection ==
    /\ Cardinality(LiveConns) <= 1
    /\ \A c \in ConnIds : conns[c].trip \in Trips
    /\ tripId = NoTrip => conns = <<>>
    /\ \A i \in 1..Len(wsCalls) :
          wsCalls[i].op = "new" =>
              \A c \in 1..(wsCalls[i].conn - 1) :
                  \E j \in 1..(i - 1) : wsCalls[j] = [op |-> "close", conn |-> c]

\* C10 witness: the trip identifier has changed, two connections exist, the
\* first was closed by the component and the second is the live one.
C10_Witness ==
    /\ Len(conns) = 2
    /\ conns[1].trip # conns[2].trip
    /\ LiveConns = {2}
    /\ wsRef = 2

\* C8: the percentage derived from a {current,total} pair is
\* 100*current/total when total > 0 and 0 when total = 0; the percentage
\* derived from a plain integer p is p.
C8_ProgressPercent ==
    \A i \in 1..Len(agentStatuses) :
        LET pr == agentStatuses[i].progress
            pct == ProgressPercent(agentStatuses[i])
        IN  /\ pr.tag = "object" /\ pr.total > 0
                => JsEquals(pct, Finite(100 * pr.current, pr.total))
            /\ pr.tag = "object" /\ pr.total = 0
                => JsEquals(pct, Finite(0, 1))
            /\ pr.tag = "number"
                => JsEquals(pct, Finite(pr.num, 1))

MissingField(m, fields) == \E f \in fields : m[f] = Undefined

\* A decoded object that has every field of a chat event, or every field
\* of a status event.
WellFormed(m) ==
    \/ m.type \in {"user", "ai"}
         /\ ~MissingField(m, {"senderName", "content", "timestamp"})
    \/ m.type = "agent_status"
         /\ ~MissingField(m, {"agent_name", "status", "step", "timestamp"})

Malformed(data) == ~Decodes(data) \/ ~WellFormed(JSONParse(data).value)

\* C9: a frame that is not JSON, or that decodes to something with the
\* required fields of neither event shape, leaves the transcript and the
\* agent status collection as they were.
C9_MalformedDropped ==
    [][ (Len(delivered') > Len(delivered)
            /\ Malformed(delivered'[Len(delivered')].data))
          => (messages' = messages /\ agentStatuses' = agentStatuses) ]_vars


\* C11 as stated: once the error notification of the session's current
\* connection has been handled, isConnected is false, before and without
\* the close notification.
C11_FalseFromErrorOnward ==
    (dispatching # NullRef /\ dispatching = wsRef) => ~isConnected

\* C11 as amended: the error notification leaves isConnected as it was;
\* the close notification that follows it sets it false, and it is false
\* whenever the current connection is closed and its close notification
\* has been handled; a connection is created only by the first effect run
\* or by a change of the trip identifier.
C11_FalseFromCloseOnward ==
    /\ [](dispatching = NullRef /\ wsRef # NullRef
             /\ conns[wsRef].readyState = "CLOSED" => ~isConnected)
    /\ [][ /\ (dispatching = NullRef /\ dispatching' # NullRef)
                => isConnected' = isConnected
           /\ dispatching # NullRef
                => (dispatching' = NullRef /\ ~isConnected')
           /\ Len(conns') > Len(conns)
                => (~mounted \/ tripId' # tripId) ]_vars

\* C11 witness: the current connection was open, has failed, and both its
\* error and its close notification have been handled.
C11_Witness ==
    /\ dispatching = NullRef
    /\ wsRef # NullRef
    /\ conns[wsRef].readyState = "CLOSED"
    /\ ~isConnected
    /\ messages # <<>>


\* ------------------------------------------------------------------------
\* The renderer of message content (strings are sequences of characters)
\* ------------------------------------------------------------------------
\* String.prototype.replace(/ch/g, rep) for a one-character pattern.
RECURSIVE ReplaceChar(_, _, _)
ReplaceChar(s, ch, rep) ==
    IF s = <<>> THEN <<>>
    ELSE (IF Head(s) = ch THEN rep ELSE <<Head(s)>>) \o ReplaceChar(Tail(s), ch, rep)

Amp == <<"&", "a", "m", "p", ";">>
Lt == <<"&", "l", "t", ";">>
Gt == <<"&", "g", "t", ";">>
Quot == <<"&", "q", "u", "o", "t", ";">>
Apos == <<"&", "#", "0", "3", "9", ";">>

\* Faulty variant of EscapeHtml: the two quote characters are left alone.
EscapeHtmlNoQuotes(unsafe) ==
    ReplaceChar(ReplaceChar(ReplaceChar(unsafe, "&", Amp), "<", Lt), ">", Gt)

\* escapeHtml: five replacements, the ampersand first.
EscapeHtml(unsafe) ==
    ReplaceChar(
      ReplaceChar(
        ReplaceChar(
          ReplaceChar(
            ReplaceChar(unsafe, "&", Amp),
            "<", Lt),
          ">", Gt),
        "\"", Quot),
      "'", Apos)

StrongOpen == <<"<", "s", "t", "r", "o", "n", "g", ">">>
StrongClose == <<"<", "/", "s", "t", "r", "o", "n", "g", ">">>
EmOpen == <<"<", "e", "m", ">">>
EmClose == <<"<", "/", "e", "m", ">">>
Br == <<"<", "b", "r", "/", ">">>

\* The characters the regular expression dot does not match.
LineTerminator(ch) == ch \in {"\n", "\r"}

SetMin(S) == CHOOSE x \in S : \A y \in S : x <= y

\* For a match of /\*\*(.+?)\*\*/ starting at i: the position of the closing
\* pair after the shortest non-empty group, or 0 when there is no match.
BoldEnd(s, i) ==
    LET ends == {j \in (i + 3)..(Len(s) - 1) :
                    /\ s[j] = "*" /\ s[j + 1] = "*"
                    /\ \A k \in (i + 2)..(j - 1) : ~LineTerminator(s[k])}
    IN  IF i + 1 <= Len(s) /\ s[i] = "*" /\ s[i + 1] = "*" /\ ends # {}
        THEN SetMin(ends) ELSE 0

\* out.replace(/\*\*(.+?)\*\*/g, '<strong>$1</strong>') from position i on.
RECURSIVE ReplaceBold(_, _)
ReplaceBold(s, i) ==
    IF i > Len(s) THEN <<>>
    ELSE LET j == BoldEnd(s, i) IN
         IF j # 0
         THEN StrongOpen \o SubSeq(s, i + 2, j - 1) \o StrongClose \o ReplaceBold(s, j + 2)
         ELSE <<s[i]>> \o ReplaceBold(s, i + 1)

\* For a match of /\*(.+?)\*/ starting at i: the position of the closing
\* asterisk after the shortest non-empty group, or 0 when there is no match.
ItalicEnd(s, i) ==
    LET ends == {j \in (i + 2)..Len(s) :
                    /\ s[j] = "*"
                    /\ \A k \in (i + 1)..(j - 1) : ~LineTerminator(s[k])}
    IN  IF s[i] = "*" /\ ends # {} THEN SetMin(ends) ELSE 0

\* out.replace(/\*(.+?)\*/g, '<em>$1</em>') from position i on.
RECURSIVE ReplaceItalic(_, _)
ReplaceItalic(s, i) ==
    IF i > Len(s) THEN <<>>
    ELSE LET j == ItalicEnd(s, i) IN
         IF j # 0
         THEN EmOpen \o SubSeq(s, i + 1, j - 1) \o EmClose \o ReplaceItalic(s, j + 1)
         ELSE <<s[i]>> \o ReplaceItalic(s, i + 1)

\* out.replace(/\r?\n/g, '<br/>')
RECURSIVE ReplaceLineBreaks(_)
ReplaceLineBreaks(s) ==
    IF s = <<>> THEN <<>>
    ELSE IF Len(s) >= 2 /\ s[1] = "\r" /\ s[2] = "\n"
         THEN Br \o ReplaceLineBreaks(SubSeq(s, 3, Len(s)))
         ELSE IF s[1] = "\n"
              THEN Br \o ReplaceLineBreaks(Tail(s))
              ELSE <<s[1]>> \o ReplaceLineBreaks(Tail(s))

\* renderMessageContent
RenderMessageContent(text) ==
    IF text = <<>> THEN <<>>
    ELSE ReplaceLineBreaks(ReplaceItalic(ReplaceBold(EscapeHtml(text), 1), 1))

\* ------------------------------------------------------------------------
\* Specification of rendering: one chat event with any content is shown
\* ------------------------------------------------------------------------
Alphabet == {"&", "<", ">", "\"", "'", "*", "\n", "a"}
StarAlphabet == {"*", "a"}

StringsOver(chars, n) == UNION {[1..k -> chars] : k \in 0..n}

\* The text **bold** and *italic*
BoldAndItalic ==
    <<"*", "*", "b", "o", "l", "d", "*", "*", " ", "a", "n", "d", " ",
      "*", "i", "t", "a", "l", "i", "c", "*">>

Texts ==
    StringsOver(Alphabet, MaxTextLen)
      \cup StringsOver(StarAlphabet, MaxStarLen)
      \cup {BoldAndItalic, <<"a", "\r", "\n", "a">>}

RenderNext ==
    \E text \in Texts :
        /\ delivered = <<>>
        /\ WsMessage(1, ObjFrame(ChatMsg("ai", "Planner", text, "t1")))

SpecRender == StreamInit /\ [][RenderNext]_vars

\* What is put into the page for the i-th transcript entry.
Rendered(i) == RenderMessageContent(messages[i].content)

StartsWith(s, p) == Len(s) >= Len(p) /\ SubSeq(s, 1, Len(p)) = p
Drop(s, n) == SubSeq(s, n + 1, Len(s))
Contains(s, ch) == \E k \in 1..Len(s) : s[k] = ch

GeneratedTags == {StrongOpen, StrongClose, EmOpen, EmClose, Br}

\* No quote character, no > outside a tag, and every < starts one of the
\* generated tags.
RECURSIVE NoRawMarkup(_)
NoRawMarkup(out) ==
    IF out = <<>> THEN TRUE
    ELSE IF Head(out) \in {">", "\"", "'"} THEN FALSE
    ELSE IF Head(out) = "<"
         THEN \E tag \in GeneratedTags :
                 StartsWith(out, tag) /\ NoRawMarkup(Drop(out, Len(tag)))
         ELSE NoRawMarkup(Tail(out))

\* C12: the rendered content of every transcript entry holds no raw <, >,
\* " or ': each < and > belongs to one of the tags <strong>, </strong>,
\* <em>, </em>, <br/>.
C12_NoRawMarkup ==
    \A i \in 1..Len(messages) : NoRawMarkup(Rendered(i))

\* C12 witness: a shown text holds <, a quote and an emphasis pair, and its
\* rendering holds a generated tag.
C12_Witness ==
    /\ messages # <<>>
    /\ messages[1].content = <<"*", "<", "\"", "*">>
    /\ Rendered(1) = EmOpen \o Lt \o Quot \o EmClose


\* The tags of out are closed in the reverse order of their opening: open
\* holds the names of the tags opened and not yet closed.
RECURSIVE TagsNested(_, _)
TagsNested(out, open) ==
    IF out = <<>> THEN open = <<>>
    ELSE IF StartsWith(out, StrongOpen)
         THEN TagsNested(Drop(out, Len(StrongOpen)), Append(open, "strong"))
    ELSE IF StartsWith(out, EmOpen)
         THEN TagsNested(Drop(out, Len(EmOpen)), Append(open, "em"))
    ELSE IF StartsWith(out, StrongClose)
         THEN /\ open # <<>> /\ open[Len(open)] = "strong"
              /\ TagsNested(Drop(out, Len(StrongClose)), SubSeq(open, 1, Len(open) - 1))
    ELSE IF StartsWith(out, EmClose)
         THEN /\ open # <<>> /\ open[Len(open)] = "em"
              /\ TagsNested(Drop(out, Len(EmClose)), SubSeq(open, 1, Len(open) - 1))
    ELSE TagsNested(Tail(out), open)

\* C17: in the rendered content of every transcript entry the <strong> and
\* <em> tags are properly nested, and **bold** and *italic* renders as
\* <strong>bold</strong> and <em>italic</em>.
C17_EmphasisNested ==
    \A i \in 1..Len(messages) :
        /\ TagsNested(Rendered(i), <<>>)
        /\ messages[i].content = BoldAndItalic =>
              Rendered(i) = StrongOpen \o <<"b", "o", "l", "d">> \o StrongClose
                              \o <<" ", "a", "n", "d", " ">>
                              \o EmOpen \o <<"i", "t", "a", "l", "i", "c">> \o EmClose


\* The frame handed to onmessage by the step, when the step is one.
Arrived == delivered'[Len(delivered')].data
IsArrival == Len(delivered') > Len(delivered)

\* C13: a step that handles an agent_status event leaves the transcript as
\* it was and stores the event under its agent_name; a step that handles
\* any other decoded event adds it to the transcript and leaves the agent
\* status collection as it was.
C13_RoutingExclusive ==
    [][ IsArrival =>
          /\ IsStatus(Arrived) =>
                /\ messages' = messages
                /\ \E i \in 1..Len(agentStatuses') :
                      /\ agentStatuses'[i].agent_name = JSONParse(Arrived).value.agent_name
                      /\ agentStatuses'[i].step = JSONParse(Arrived).value.step
                      /\ agentStatuses'[i].timestamp = JSONParse(Arrived).value.timestamp
          /\ IsChat(Arrived) =>
                /\ agentStatuses' = agentStatuses
                /\ Len(messages') = Len(messages) + 1
                /\ messages'[Len(messages')] = JSONParse(Arrived).value ]_vars

\* C13 witness: a status event has arrived after a chat event and a chat
\* event after a status event; the transcript and the collection each hold
\* their own events.
C13_Witness ==
    /\ Len(delivered) = 4
    /\ IsChat(delivered[1].data) /\ IsStatus(delivered[2].data)
    /\ IsStatus(delivered[3].data) /\ IsChat(delivered[4].data)
    /\ Len(messages) = 2
    /\ Len(agentStatuses) >= 1


EventFields == {"type", "senderName", "content", "timestamp", "agent_name",
                "status", "step", "progress", "elapsed_seconds"}

\* C14: every record carries, field by field, the values of the latest
\* status event of its agent_name, absent fields included, and after an
\* update the last history entry is the step and timestamp of the event
\* before it.
C14_RecordIsLatestEvent ==
    \A i \in 1..Len(agentStatuses) :
        LET mine == EventsOfAgent(StatusEvents(delivered), agentStatuses[i].agent_name)
            k == Len(mine)
            hist == agentStatuses[i].step_history
        IN  /\ k >= 1
            /\ \A f \in EventFields : agentStatuses[i][f] = mine[k][f]
            /\ k >= 2 =>
                  /\ hist # <<>>
                  /\ hist[Len(hist)] = [step |-> mine[k - 1].step,
                                        timestamp |-> mine[k - 1].timestamp]

\* C14 witness: agentA's record was updated by an event without progress
\* and elapsed_seconds after an event that had both, and agentB's record
\* was updated by an event whose status is outside the vocabulary.
C14_Witness ==
    /\ Len(agentStatuses) = 2
    /\ \E i, j \in 1..Len(agentStatuses) :
          /\ agentStatuses[i].agent_name = "agentA"
          /\ agentStatuses[i].progress = JsUndefined
          /\ agentStatuses[i].elapsed_seconds = JsUndefined
          /\ agentStatuses[i].status = "completed"
          /\ agentStatuses[i].step_history = <<[step |-> "step1", timestamp |-> "t1"]>>
          /\ agentStatuses[j].agent_name = "agentB"
          /\ agentStatuses[j].status = "paused"
          /\ Len(agentStatuses[j].step_history) = 1


\* A step that creates no connection and changes the ready state of one, or
\* ends the task of an error: an open, error or close notification.
IsNotification ==
    /\ Len(conns') = Len(conns)
    /\ \/ \E c \in ConnIds : conns'[c].readyState # conns[c].readyState
       \/ dispatching' # dispatching

\* C15: an open, error or close notification leaves the transcript and the
\* agent status collection, step histories included, as they were.
C15_NotificationsKeepState ==
    [][ IsNotification => (messages' = messages /\ agentStatuses' = agentStatuses) ]_vars

\* C15 witness: the current connection delivered a chat event and a status
\* event, then failed; both are still held after its error and close
\* notifications.
C15_Witness ==
    /\ dispatching = NullRef
    /\ wsRef # NullRef
    /\ conns[wsRef].readyState = "CLOSED"
    /\ ~isConnected
    /\ Len(messages) = 1
    /\ Len(agentStatuses) = 1
    /\ Len(FramesOf(delivered, wsRef)) = 2


StatusObjects == {JSONParse(data).value : data \in {d \in Frames : IsStatus(d)}}

NamesIn(coll) == {coll[i].agent_name : i \in 1..Len(coll)}
RecordsIn(coll) == {coll[i] : i \in 1..Len(coll)}

\* C16: from the current collection, two status events with different
\* agent_name values give, in either order, the same agent names, one
\* record more per name that was not present, and the same record (step
\* history included) for every agent.
C16_OrderOfDistinctAgents ==
    \A e1, e2 \in StatusObjects :
        e1.agent_name # e2.agent_name =>
            LET ab == StatusUpdater(StatusUpdater(agentStatuses, e1), e2)
                ba == StatusUpdater(StatusUpdater(agentStatuses, e2), e1)
                added == {e1.agent_name, e2.agent_name} \ NamesIn(agentStatuses)
            IN  /\ NamesIn(ab) = NamesIn(ba)
                /\ NamesIn(ab) = NamesIn(agentStatuses) \cup {e1.agent_name, e2.agent_name}
                /\ Len(ab) = Len(agentStatuses) + Cardinality(added)
                /\ Len(ba) = Len(ab)
                /\ RecordsIn(ab) = RecordsIn(ba)

\* C16 witness: the collection holds agentA alone, already updated once, so
\* an agentA event and an agentB event update one record and add one, and
\* either order gives two records.
C16_Witness ==
    /\ Len(agentStatuses) = 1
    /\ agentStatuses[1].agent_name = "agentA"
    /\ agentStatuses[1].step_history # <<>>
    /\ \E e1, e2 \in StatusObjects :
          /\ e1.agent_name = "agentA" /\ e2.agent_name = "agentB"
          /\ Len(StatusUpdater(StatusUpdater(agentStatuses, e1), e2)) = 2
          /\ StatusUpdater(StatusUpdater(agentStatuses, e1), e2)
                = StatusUpdater(StatusUpdater(agentStatuses, e2), e1)


\* C18: a step that handles a status event for agent_name X keeps every
\* existing record at its position, leaves the records of the other agents
\* (step history included) as they were, replaces X's record where it was,
\* and puts the record of a new agent at the end.
C18_OtherAgentsAndPositionsKept ==
    [][ (IsArrival /\ IsStatus(Arrived)) =>
          LET X == JSONParse(Arrived).value.agent_name
              known == X \in NamesIn(agentStatuses)
          IN  /\ \A i \in 1..Len(agentStatuses) :
                    /\ i <= Len(agentStatuses')
                    /\ agentStatuses'[i].agent_name = agentStatuses[i].agent_name
                    /\ agentStatuses[i].agent_name # X => agentStatuses'[i] = agentStatuses[i]
              /\ known => Len(agentStatuses') = Len(agentStatuses)
              /\ ~known =>
                    /\ Len(agentStatuses') = Len(agentStatuses) + 1
                    /\ agentStatuses'[Len(agentStatuses')].agent_name = X ]_vars

\* C18 witness: agentA's record, first of two, was updated by the third
\* event after agentB's record had been added behind it.
C18_Witness ==
    /\ Len(delivered) = 3
    /\ IsStatus(delivered[1].data) /\ JSONParse(delivered[1].data).value.agent_name = "agentA"
    /\ IsStatus(delivered[2].data) /\ JSONParse(delivered[2].data).value.agent_name = "agentB"
    /\ IsStatus(delivered[3].data) /\ JSONParse(delivered[3].data).value.agent_name = "agentA"
    /\ Len(agentStatuses) = 2
    /\ agentStatuses[1].agent_name = "agentA"
    /\ Len(agentStatuses[1].step_history) = 1
    /\ agentStatuses[2].agent_name = "agentB"
    /\ agentStatuses[2].step_history = <<>>


\* C19: the transcript and the agent status collection change only in a
\* step that handles an inbound frame; a run of handleSendMessage changes
\* neither; a rejected run hands nothing to the connection and keeps the
\* input; a run that passes the gate hands exactly one object to send(),
\* of type user with the input as typed as its content, send() returns,
\* and the input is cleared.
C19_SendFrame ==
    [][ /\ (messages' # messages \/ agentStatuses' # agentStatuses) => IsArrival
        /\ lastSend' # lastSend =>
              /\ messages' = messages
              /\ agentStatuses' = agentStatuses
              /\ lastSend'.outcome = "rejected" =>
                    /\ lastSend'.sent = <<>>
                    /\ inputMessage' = inputMessage
              /\ lastSend'.outcome # "rejected" =>
                    /\ Len(lastSend'.sent) = 1
                    /\ lastSend'.sent[1].type = "user"
                    /\ lastSend'.sent[1].content = inputMessage
                    /\ lastSend'.outcome # "threw"
                    /\ inputMessage' = <<>> ]_vars

====
